---- MODULE Spec2Model ----
(***************************************************************************)
(* Model of DistributedTFNode                                              *)
(* (packages/distributed_tf/src/duckiebot_distributed_tf_node.py).         *)
(*                                                                         *)
(* Execution contexts: the main thread running __init__, the rospy.Timer   *)
(* thread of _fetch_static_tfs, the rospy.Timer thread of                  *)
(* _publish_static_tfs and the subscriber threads that run _cb_odometry.   *)
(* Lengths are in tenths of a distance unit, so MIN_DIST_ODOM = 0.2 is 2   *)
(* and distances are compared through their squares.                       *)
(***************************************************************************)
EXTENDS Integers, Sequences, FiniteSets, TLC

\* ------------------------------------------------------------------ bounds
\* odometry samples delivered in one run
MaxSamples == 3
\* positions are <<x, 0, 0>> with x in 0..MaxCoord (tenths)
MaxCoord == 2
\* distinct results the transform lookup collaborator can return
NumTransforms == 2

\* --------------------------------------------------------- program constants
\* MIN_DIST_ODOM = 0.2, in tenths
MIN_DIST_ODOM == 2

NOTSET == "__NOTSET__"
robot_hostname == "autobot01"

\* strings that are sanitized are sequences of characters
\* the character class 0-9a-zA-Z of the pattern at line 245
AlphaNum ==
    {"0", "1", "2", "3", "4", "5", "6", "7", "8", "9",
     "a", "b", "c", "d", "e", "f", "g", "h", "i", "j", "k", "l", "m",
     "n", "o", "p", "q", "r", "s", "t", "u", "v", "w", "x", "y", "z",
     "A", "B", "C", "D", "E", "F", "G", "H", "I", "J", "K", "L", "M",
     "N", "O", "P", "Q", "R", "S", "T", "U", "V", "W", "X", "Y", "Z"}

\* values of the parameter ~map: "auto-bot_01!", "map" and "--A.b"
MapParams ==
    { <<"a", "u", "t", "o", "-", "b", "o", "t", "_", "0", "1", "!">>,
      <<"m", "a", "p">>,
      <<"-", "-", "A", ".", "b">> }

\* the longest prefix of s matched by [^0-9a-zA-Z]+ is dropped
RECURSIVE SkipRun(_)
SkipRun(s) ==
    IF s # <<>> /\ Head(s) \notin AlphaNum THEN SkipRun(Tail(s)) ELSE s

\* re.sub("[^0-9a-zA-Z]+", "", s): scanning from the left, every maximal run
\* that matches the pattern is replaced by the empty string
RECURSIVE re_sub(_)
re_sub(s) ==
    IF s = <<>> THEN <<>>
    ELSE IF Head(s) \in AlphaNum THEN <<Head(s)>> \o re_sub(Tail(s))
    ELSE re_sub(SkipRun(s))

\* mutant of _sanitize_hostname: the class \W, which lets the underscore through
SanitizeKeepsUnderscore(s) ==
    LET Keep(ch) == ch \in AlphaNum \cup {"_"} IN SelectSeq(s, Keep)

\* lines 244-245
_sanitize_hostname(s) == re_sub(s)

\* Python's None, and an attribute that has not been assigned yet
None == [none |-> TRUE]
Unset == [unset |-> TRUE]

FetchCtx == {"main", "fetch_timer"}
PublishCtx == {"main", "pub_timer"}
Contexts == {"main", "fetch_timer", "pub_timer"}
\* receive threads of the odometry subscriber (one per publisher connection)
OdomThreads == {"cb1", "cb2"}

TagIds == {NOTSET, "42"}
LookupErrors == {"LookupException", "ExtrapolationException", "ConnectivityException"}

Positions == {<<x, 0, 0>> : x \in 0..MaxCoord}
\* unit quaternions <<x, y, z, w>>: identity and a half turn about z
Quats == {<<0, 0, 0, 1>>, <<0, 0, 1, 0>>}

VARIABLES
    map_param,       \* parameter ~map
    tag_id,          \* parameter ~tag_id
    raisesOnNone,    \* whether the group publisher raises when handed None
    odom_threads,    \* receive threads of the odometry subscriber
    pc,              \* position of main / fetch timer thread / publish timer thread
    static_tfs,      \* self._static_tfs, a dict in insertion order
    sem,             \* self._static_tfs_sem, value of the Semaphore(1)
    fetch_timer,     \* self._tf_static_timer
    pub_timer,       \* self._pub_timer
    transform,       \* local `tf` of _fetch_static_tfs, per context
    tfs,             \* local `tfs` of _publish_static_tfs, per context
    pose_last,       \* self._pose_last
    opc,             \* position of each odometry callback thread
    pose_now,        \* argument of _cb_odometry, per thread
    olocal,          \* locals of _cb_odometry, per thread
    nSamples,        \* odometry samples delivered so far
    lastPublished    \* last call of self._tf_pub.publish

vars == <<map_param, tag_id, raisesOnNone, odom_threads, pc, static_tfs, sem, fetch_timer, pub_timer,
          transform, tfs, pose_last, opc, pose_now, olocal, nSamples, lastPublished>>

envVars == <<map_param, tag_id, raisesOnNone, odom_threads>>
staticVars == <<static_tfs, sem, fetch_timer, pub_timer, transform, tfs>>
odomVars == <<pose_last, opc, pose_now, olocal, nSamples>>

\* line 46: self.map_name = _sanitize_hostname(rospy.get_param('~map'))
map_name == _sanitize_hostname(map_param)

\* ------------------------------------------------------------- frame names
_tag_frame == <<"tag", tag_id>>
_footprint_frame == <<robot_hostname, "footprint">>

\* ------------------------------------------------------------ dict helpers
HasKey(d, k) == \E i \in 1..Len(d) : d[i].key = k

Get(d, k) == d[CHOOSE i \in 1..Len(d) : d[i].key = k].value

\* d[k] = v on a Python dict: replace in place, or append a new key
SetItem(d, k, v) ==
    IF HasKey(d, k)
    THEN [i \in 1..Len(d) |-> IF d[i].key = k THEN [key |-> k, value |-> v] ELSE d[i]]
    ELSE Append(d, [key |-> k, value |-> v])

\* list(d.values())
Values(d) == [i \in 1..Len(d) |-> d[i].value]

\* -------------------------------------------------------------- initial state
NoLocal == [t_last |-> <<0, 0, 0>>, transform |-> None]

\* the node started with ~map drawn from M and the odometry topic served by
\* the receive threads T
InitWith(T, M) ==
    /\ map_param \in M
    /\ tag_id \in TagIds
    /\ raisesOnNone \in BOOLEAN
    /\ odom_threads = T
    /\ pc = [c \in Contexts |-> IF c = "main" THEN "L80" ELSE "none"]
    /\ static_tfs = << [key |-> <<_footprint_frame, _tag_frame>>, value |-> None] >>
    /\ sem = 1
    /\ fetch_timer = "unset"
    /\ pub_timer = "unset"
    /\ transform = [c \in Contexts |-> None]
    /\ tfs = [c \in Contexts |-> <<>>]
    /\ pose_last = Unset
    /\ opc = [t \in OdomThreads |-> "idle"]
    /\ pose_now = [t \in OdomThreads |-> None]
    /\ olocal = [t \in OdomThreads |-> NoLocal]
    /\ nSamples = 0
    /\ lastPublished = None

\* one publisher on the odometry topic: callbacks are delivered one at a time
Init == InitWith({"cb1"}, {<<"m", "a", "p">>})

\* the process is alive: __init__ has not been left by an exception
Alive == pc["main"] # "crashed"

\* self._tf_pub.publish(msg, destination=self.map_name)
Publish(msg, by) ==
    lastPublished' = [msg |-> msg, destination |-> map_name, by |-> by]

\* ------------------------------------------------------------------ __init__
\* mutant of InitCheckTag: the sentinel is not looked at
InitCheckTagIgnoresSentinel ==
    /\ pc["main"] = "L80"
    /\ pc' = [pc EXCEPT !["main"] = "F110"]
    /\ UNCHANGED <<envVars, staticVars, odomVars, lastPublished>>

\* line 80: if self.tag_id != '__NOTSET__'
InitCheckTag ==
    /\ pc["main"] = "L80"
    /\ pc' = [pc EXCEPT !["main"] = IF tag_id # NOTSET THEN "F110" ELSE "L92"]
    /\ UNCHANGED <<envVars, staticVars, odomVars, lastPublished>>

\* lines 83-86: self._tf_static_timer = rospy.Timer(..., self._fetch_static_tfs)
InitFetchTimer ==
    /\ pc["main"] = "L83"
    /\ fetch_timer' = "running"
    /\ pc' = [pc EXCEPT !["main"] = "L87", !["fetch_timer"] = "idle"]
    /\ UNCHANGED <<envVars, static_tfs, sem, pub_timer, transform, tfs,
                   odomVars, lastPublished>>

\* lines 87-90: self._pub_timer = rospy.Timer(..., self._publish_static_tfs)
InitPubTimer ==
    /\ pc["main"] = "L87"
    /\ pub_timer' = "running"
    /\ pc' = [pc EXCEPT !["main"] = "L92", !["pub_timer"] = "idle"]
    /\ UNCHANGED <<envVars, static_tfs, sem, fetch_timer, transform, tfs,
                   odomVars, lastPublished>>

\* lines 92-98: self._odo_sub = rospy.Subscriber(..., self._cb_odometry, queue_size=1)
InitSubscribe ==
    /\ pc["main"] = "L92"
    /\ pc' = [pc EXCEPT !["main"] = "L99"]
    /\ UNCHANGED <<envVars, staticVars, odomVars, lastPublished>>

\* line 99: self._pose_last = None; the constructor returns and main spins
InitPoseLast ==
    /\ pc["main"] = "L99"
    /\ pose_last' = None
    /\ pc' = [pc EXCEPT !["main"] = "spin"]
    /\ UNCHANGED <<envVars, staticVars, opc, pose_now, olocal, nSamples,
                   lastPublished>>

\* the odometry subscriber exists from line 92 on
Subscribed == pc["main"] \in {"L99", "spin"}

\* --------------------------------------------------------- _fetch_static_tfs
\* where a context goes when _fetch_static_tfs returns
FetchReturn(c, timer) ==
    IF c = "main" THEN "P148"
    ELSE IF timer = "shutdown" THEN "stopped" ELSE "idle"

\* the AutolabTransform built at lines 111-127 from lookup result n
StaticTF(origin, target, n) ==
    [origin |-> [time |-> n, type |-> "TYPE_DUCKIEBOT_TAG", name |-> origin,
                 robot |-> robot_hostname],
     target |-> [time |-> n, type |-> "TYPE_DUCKIEBOT_FOOTPRINT", name |-> target,
                 robot |-> robot_hostname],
     is_fixed |-> TRUE,
     is_static |-> FALSE,
     transform |-> [id |-> n]]

\* the rospy.Timer thread calls _fetch_static_tfs after each period
FetchTick ==
    /\ Alive
    /\ pc["fetch_timer"] = "idle"
    /\ fetch_timer = "running"
    /\ pc' = [pc EXCEPT !["fetch_timer"] = "F110"]
    /\ UNCHANGED <<envVars, staticVars, odomVars, lastPublished>>

\* lines 110-127: lookup_transform succeeds with result n
FetchLookupOk(c, n) ==
    /\ Alive
    /\ pc[c] = "F110"
    /\ transform' = [transform EXCEPT ![c] = StaticTF(_tag_frame, _footprint_frame, n)]
    /\ pc' = [pc EXCEPT ![c] = "F129"]
    /\ UNCHANGED <<envVars, static_tfs, sem, fetch_timer, pub_timer, tfs,
                   odomVars, lastPublished>>

\* mutant of FetchLookupFail: the handler records a null edge under the fetch key
FetchLookupFailStoresNull(c, e) ==
    /\ Alive
    /\ pc[c] = "F110"
    /\ e \in LookupErrors
    /\ static_tfs' = SetItem(static_tfs, <<_tag_frame, _footprint_frame>>, None)
    /\ pc' = [pc EXCEPT ![c] = FetchReturn(c, fetch_timer)]
    /\ UNCHANGED <<envVars, sem, fetch_timer, pub_timer, transform, tfs, odomVars,
                   lastPublished>>

\* lines 110, 141-144: lookup_transform raises e, the handler logs or passes
FetchLookupFail(c, e) ==
    /\ Alive
    /\ pc[c] = "F110"
    /\ e \in LookupErrors
    /\ pc' = [pc EXCEPT ![c] = FetchReturn(c, fetch_timer)]
    /\ UNCHANGED <<envVars, staticVars, odomVars, lastPublished>>

\* mutant of FetchAcquire: the store is entered without waiting for the semaphore
FetchAcquireNoWait(c) ==
    /\ Alive
    /\ pc[c] = "F129"
    /\ sem' = 0
    /\ pc' = [pc EXCEPT ![c] = "F131"]
    /\ UNCHANGED <<envVars, static_tfs, fetch_timer, pub_timer, transform, tfs,
                   odomVars, lastPublished>>

\* line 129: self._static_tfs_sem.acquire()
FetchAcquire(c) ==
    /\ Alive
    /\ pc[c] = "F129"
    /\ sem = 1
    /\ sem' = 0
    /\ pc' = [pc EXCEPT ![c] = "F131"]
    /\ UNCHANGED <<envVars, static_tfs, fetch_timer, pub_timer, transform, tfs,
                   odomVars, lastPublished>>

\* line 131: self._static_tfs[(origin, target)] = tf
FetchStoreKey == <<_tag_frame, _footprint_frame>>

FetchStore(c) ==
    /\ Alive
    /\ pc[c] = "F131"
    /\ static_tfs' = SetItem(static_tfs, FetchStoreKey, transform[c])
    /\ pc' = [pc EXCEPT ![c] = "F133"]
    /\ UNCHANGED <<envVars, sem, fetch_timer, pub_timer, transform, tfs,
                   odomVars, lastPublished>>

\* line 133: self._static_tfs_sem.release()
FetchRelease(c) ==
    /\ Alive
    /\ pc[c] = "F133"
    /\ sem' = 1
    /\ pc' = [pc EXCEPT ![c] = "F138"]
    /\ UNCHANGED <<envVars, static_tfs, fetch_timer, pub_timer, transform, tfs,
                   odomVars, lastPublished>>

\* lines 137-140: self._tf_static_timer.shutdown(); while the attribute does
\* not exist yet the AttributeError is swallowed by `except BaseException`
TimerShutdown(timer) == IF timer = "unset" THEN timer ELSE "shutdown"

FetchShutdownTimer(c) ==
    /\ Alive
    /\ pc[c] = "F138"
    /\ fetch_timer' = TimerShutdown(fetch_timer)
    /\ transform' = [transform EXCEPT ![c] = None]
    /\ pc' = [pc EXCEPT ![c] = FetchReturn(c, fetch_timer')]
    /\ UNCHANGED <<envVars, static_tfs, sem, pub_timer, tfs,
                   odomVars, lastPublished>>

\* ------------------------------------------------------- _publish_static_tfs
PublishReturn(c) == IF c = "main" THEN "L83" ELSE "idle"

\* the rospy.Timer thread calls _publish_static_tfs after each period
PublishTick ==
    /\ Alive
    /\ pc["pub_timer"] = "idle"
    /\ pub_timer = "running"
    /\ pc' = [pc EXCEPT !["pub_timer"] = "P148"]
    /\ UNCHANGED <<envVars, staticVars, odomVars, lastPublished>>

\* lines 147-148: tfs = []; self._static_tfs_sem.acquire()
PublishAcquire(c) ==
    /\ Alive
    /\ pc[c] = "P148"
    /\ sem = 1
    /\ sem' = 0
    /\ tfs' = [tfs EXCEPT ![c] = <<>>]
    /\ pc' = [pc EXCEPT ![c] = "P150"]
    /\ UNCHANGED <<envVars, static_tfs, fetch_timer, pub_timer, transform,
                   odomVars, lastPublished>>

\* lines 150-151: for transform in self._static_tfs.values(): tfs.append(transform)
Snapshot(d) == Values(d)

\* mutant of PublishCopy: the copied edges are taken out of the cache
PublishCopyDrains(c) ==
    /\ Alive
    /\ pc[c] = "P150"
    /\ tfs' = [tfs EXCEPT ![c] = Snapshot(static_tfs)]
    /\ static_tfs' = <<>>
    /\ pc' = [pc EXCEPT ![c] = "P153"]
    /\ UNCHANGED <<envVars, sem, fetch_timer, pub_timer, transform,
                   odomVars, lastPublished>>

PublishCopy(c) ==
    /\ Alive
    /\ pc[c] = "P150"
    /\ tfs' = [tfs EXCEPT ![c] = Snapshot(static_tfs)]
    /\ pc' = [pc EXCEPT ![c] = "P153"]
    /\ UNCHANGED <<envVars, static_tfs, sem, fetch_timer, pub_timer, transform,
                   odomVars, lastPublished>>

\* mutant of PublishRelease: the semaphore is kept while the edges are published
PublishReleaseKeepsLock(c) ==
    /\ Alive
    /\ pc[c] = "P153"
    /\ pc' = [pc EXCEPT ![c] = "P155"]
    /\ UNCHANGED <<envVars, staticVars, odomVars, lastPublished>>

\* line 153: self._static_tfs_sem.release()
PublishRelease(c) ==
    /\ Alive
    /\ pc[c] = "P153"
    /\ sem' = 1
    /\ pc' = [pc EXCEPT ![c] = "P155"]
    /\ UNCHANGED <<envVars, static_tfs, fetch_timer, pub_timer, transform, tfs,
                   odomVars, lastPublished>>

\* lines 155-156, one iteration: self._tf_pub.publish(tf, destination=self.map_name)
PublishOne(c) ==
    /\ Alive
    /\ pc[c] = "P155"
    /\ tfs[c] # <<>>
    /\ ~(Head(tfs[c]) = None /\ raisesOnNone)
    /\ Publish(Head(tfs[c]), c)
    /\ tfs' = [tfs EXCEPT ![c] = Tail(tfs[c])]
    /\ UNCHANGED <<envVars, pc, static_tfs, sem, fetch_timer, pub_timer,
                   transform, odomVars>>

\* line 156 when publish raises on None: the exception leaves
\* _publish_static_tfs; in __init__ it aborts the node, in a timer thread it
\* ends the thread
PublishRaise(c) ==
    /\ Alive
    /\ pc[c] = "P155"
    /\ tfs[c] # <<>>
    /\ Head(tfs[c]) = None /\ raisesOnNone
    /\ Publish(None, c)
    /\ pc' = [pc EXCEPT ![c] = IF c = "main" THEN "crashed" ELSE "dead"]
    /\ UNCHANGED <<envVars, staticVars, odomVars>>

\* line 155, loop exhausted: _publish_static_tfs returns
PublishDone(c) ==
    /\ Alive
    /\ pc[c] = "P155"
    /\ tfs[c] = <<>>
    /\ pc' = [pc EXCEPT ![c] = PublishReturn(c)]
    /\ UNCHANGED <<envVars, staticVars, odomVars, lastPublished>>

\* ------------------------------------------------------------- _cb_odometry
\* tr.quaternion_multiply(quaternion1, quaternion0), components <<x, y, z, w>>
quaternion_multiply(q1, q0) ==
    << q1[1]*q0[4] + q1[2]*q0[3] - q1[3]*q0[2] + q1[4]*q0[1],
       (0 - q1[1])*q0[3] + q1[2]*q0[4] + q1[3]*q0[1] + q1[4]*q0[2],
       q1[1]*q0[2] - q1[2]*q0[1] + q1[3]*q0[4] + q1[4]*q0[3],
       (0 - q1[1])*q0[1] - q1[2]*q0[2] - q1[3]*q0[3] + q1[4]*q0[4] >>

\* tr.quaternion_matrix(q)[0:3][:,0:3]: the rotation of q, scaled by 2/|q|^2
\* (every quaternion of the model has |q|^2 in {0, 1}, so the division is exact)
quaternion_matrix(q) ==
    LET nq == q[1]*q[1] + q[2]*q[2] + q[3]*q[3] + q[4]*q[4]
        s(i, j) == (2 * q[i] * q[j]) \div nq
    IN  IF nq = 0
        THEN << <<1, 0, 0>>, <<0, 1, 0>>, <<0, 0, 1>> >>
        ELSE << <<1 - s(2, 2) - s(3, 3), s(1, 2) - s(3, 4), s(1, 3) + s(2, 4)>>,
                <<s(1, 2) + s(3, 4), 1 - s(1, 1) - s(3, 3), s(2, 3) - s(1, 4)>>,
                <<s(1, 3) - s(2, 4), s(2, 3) + s(1, 4), 1 - s(1, 1) - s(2, 2)>> >>

\* np.dot(M, v) for a 3x3 matrix
MatVec(M, v) ==
    [i \in 1..3 |-> M[i][1]*v[1] + M[i][2]*v[2] + M[i][3]*v[3]]

VecSub(a, b) == [i \in 1..3 |-> a[i] - b[i]]

\* np.linalg.norm(v) squared
NormSq(v) == v[1]*v[1] + v[2]*v[2] + v[3]*v[3]

\* lines 184-192: q_world_to_last is q_last_to_world with its w negated
RelativeRotation(q_last, q_now) ==
    quaternion_multiply(<<q_last[1], q_last[2], q_last[3], 0 - q_last[4]>>, q_now)

\* lines 194-201: t_now_to_last = R(q_now_to_last) . (t_now - t_last)
RelativeTranslation(q_now_to_last, t_now, t_last) ==
    MatVec(quaternion_matrix(q_now_to_last), VecSub(t_now, t_last))

\* mutant of TooClose: only a sample that did not move at all is suppressed
TooCloseOnlyAtRest(t_now_to_last) == NormSq(t_now_to_last) < 1

\* lines 202-204: dist < self.min_dist_odom
TooClose(t_now_to_last) == NormSq(t_now_to_last) < MIN_DIST_ODOM * MIN_DIST_ODOM

\* lines 223-239: the AutolabTransform of an odometry edge
OdomTF(last_stamp, now_stamp, tr) ==
    [origin |-> [time |-> last_stamp, type |-> "TYPE_DUCKIEBOT_FOOTPRINT",
                 name |-> _footprint_frame, robot |-> robot_hostname],
     target |-> [time |-> now_stamp, type |-> "TYPE_DUCKIEBOT_FOOTPRINT",
                 name |-> _footprint_frame, robot |-> robot_hostname],
     is_fixed |-> FALSE,
     is_static |-> FALSE,
     transform |-> tr]

\* _cb_odometry returns: the thread waits for the next message
CbReturn(t) ==
    /\ opc' = [opc EXCEPT ![t] = "idle"]
    /\ pose_now' = [pose_now EXCEPT ![t] = None]
    /\ olocal' = [olocal EXCEPT ![t] = NoLocal]

\* the subscriber thread t receives an Odometry message and calls _cb_odometry
CbDeliver(t, p, q) ==
    /\ Alive
    /\ Subscribed
    /\ t \in odom_threads
    /\ opc[t] = "idle"
    /\ nSamples < MaxSamples
    /\ nSamples' = nSamples + 1
    /\ pose_now' = [pose_now EXCEPT ![t] = [pos |-> p, rot |-> q, stamp |-> nSamples + 1]]
    /\ opc' = [opc EXCEPT ![t] = "O171"]
    /\ UNCHANGED <<envVars, pc, staticVars, pose_last, olocal, lastPublished>>

\* line 171 before line 99 has run: self._pose_last does not exist, the
\* AttributeError ends the callback and rospy logs it
CbNoAttribute(t) ==
    /\ Alive
    /\ opc[t] = "O171"
    /\ pose_last = Unset
    /\ CbReturn(t)
    /\ UNCHANGED <<envVars, pc, staticVars, pose_last, nSamples, lastPublished>>

\* line 171: if self._pose_last is None
CbCheckFirst(t) ==
    /\ Alive
    /\ opc[t] = "O171"
    /\ pose_last # Unset
    /\ opc' = [opc EXCEPT ![t] = IF pose_last = None THEN "O172" ELSE "O176"]
    /\ UNCHANGED <<envVars, pc, staticVars, pose_last, pose_now, olocal, nSamples,
                   lastPublished>>

\* lines 172-173: self._pose_last = pose_now; return
CbStoreFirst(t) ==
    /\ Alive
    /\ opc[t] = "O172"
    /\ pose_last' = pose_now[t]
    /\ CbReturn(t)
    /\ UNCHANGED <<envVars, pc, staticVars, nSamples, lastPublished>>

\* lines 176-182: t_now_to_world and t_last_to_world are read
CbReadPositions(t) ==
    /\ Alive
    /\ opc[t] = "O176"
    /\ olocal' = [olocal EXCEPT ![t].t_last = pose_last.pos]
    /\ opc' = [opc EXCEPT ![t] = "O184"]
    /\ UNCHANGED <<envVars, pc, staticVars, pose_last, pose_now, nSamples, lastPublished>>

\* the Transform of lines 210-218, from the orientation read at lines 184-188
CbTransform(t) ==
    LET q_now_to_last == RelativeRotation(pose_last.rot, pose_now[t].rot)
    IN  [translation |-> RelativeTranslation(q_now_to_last, pose_now[t].pos,
                                             olocal[t].t_last),
         rotation |-> q_now_to_last]

\* mutant of CbSuppress: the reference advances to the suppressed sample
CbSuppressAdvances(t) ==
    /\ Alive
    /\ opc[t] = "O184"
    /\ TooClose(CbTransform(t).translation)
    /\ pose_last' = pose_now[t]
    /\ CbReturn(t)
    /\ UNCHANGED <<envVars, pc, staticVars, nSamples, lastPublished>>

\* lines 184-205 with dist < self.min_dist_odom: return
CbSuppress(t) ==
    /\ Alive
    /\ opc[t] = "O184"
    /\ TooClose(CbTransform(t).translation)
    /\ CbReturn(t)
    /\ UNCHANGED <<envVars, pc, staticVars, pose_last, nSamples, lastPublished>>

\* lines 184-218 with dist >= self.min_dist_odom: the Transform is built
CbPass(t) ==
    /\ Alive
    /\ opc[t] = "O184"
    /\ ~TooClose(CbTransform(t).translation)
    /\ olocal' = [olocal EXCEPT ![t].transform = CbTransform(t)]
    /\ opc' = [opc EXCEPT ![t] = "O223"]
    /\ UNCHANGED <<envVars, pc, staticVars, pose_last, pose_now, nSamples, lastPublished>>

\* what lines 223-241 leave in self._pose_last: nothing is assigned to it
PoseLastAfterEmit(last, now) == last

\* lines 223-241: the edge is packed and published; the callback returns
CbPublish(t) ==
    /\ Alive
    /\ opc[t] = "O223"
    /\ Publish(OdomTF(pose_last.stamp, pose_now[t].stamp, olocal[t].transform), t)
    /\ pose_last' = PoseLastAfterEmit(pose_last, pose_now[t])
    /\ CbReturn(t)
    /\ UNCHANGED <<envVars, pc, staticVars, nSamples>>

\* ---------------------------------------------------------------- the node
\* steps of the main thread, the fetch timer thread and the publish timer thread
StaticStep ==
    \/ InitCheckTag
    \/ InitFetchTimer
    \/ InitPubTimer
    \/ InitSubscribe
    \/ InitPoseLast
    \/ FetchTick
    \/ \E c \in FetchCtx, n \in 1..NumTransforms : FetchLookupOk(c, n)
    \/ \E c \in FetchCtx, e \in LookupErrors : FetchLookupFail(c, e)
    \/ \E c \in FetchCtx : FetchAcquire(c)
    \/ \E c \in FetchCtx : FetchStore(c)
    \/ \E c \in FetchCtx : FetchRelease(c)
    \/ \E c \in FetchCtx : FetchShutdownTimer(c)
    \/ PublishTick
    \/ \E c \in PublishCtx : PublishAcquire(c)
    \/ \E c \in PublishCtx : PublishCopy(c)
    \/ \E c \in PublishCtx : PublishRelease(c)
    \/ \E c \in PublishCtx : PublishOne(c)
    \/ \E c \in PublishCtx : PublishRaise(c)
    \/ \E c \in PublishCtx : PublishDone(c)

\* steps of the odometry subscriber threads
OdomStep ==
    \/ \E t \in OdomThreads, p \in Positions, q \in Quats : CbDeliver(t, p, q)
    \/ \E t \in OdomThreads : CbNoAttribute(t)
    \/ \E t \in OdomThreads : CbCheckFirst(t)
    \/ \E t \in OdomThreads : CbStoreFirst(t)
    \/ \E t \in OdomThreads : CbReadPositions(t)
    \/ \E t \in OdomThreads : CbSuppress(t)
    \/ \E t \in OdomThreads : CbPass(t)
    \/ \E t \in OdomThreads : CbPublish(t)

Next == StaticStep \/ OdomStep

Spec == Init /\ [][Next]_vars

\* The node while no odometry message arrives, with the scheduling rospy
\* gives: the main thread keeps running its constructor, and each timer
\* thread that can take a step eventually takes one.
MainStep ==
    \/ InitCheckTag \/ InitFetchTimer \/ InitPubTimer \/ InitSubscribe \/ InitPoseLast
    \/ \E n \in 1..NumTransforms : FetchLookupOk("main", n)
    \/ \E e \in LookupErrors : FetchLookupFail("main", e)
    \/ FetchAcquire("main") \/ FetchStore("main")
    \/ FetchRelease("main") \/ FetchShutdownTimer("main")
    \/ PublishAcquire("main") \/ PublishCopy("main") \/ PublishRelease("main")
    \/ PublishOne("main") \/ PublishRaise("main") \/ PublishDone("main")

PubTimerStep ==
    \/ PublishTick
    \/ PublishAcquire("pub_timer") \/ PublishCopy("pub_timer")
    \/ PublishRelease("pub_timer") \/ PublishOne("pub_timer")
    \/ PublishRaise("pub_timer") \/ PublishDone("pub_timer")

FetchTimerStep ==
    \/ FetchTick
    \/ \E n \in 1..NumTransforms : FetchLookupOk("fetch_timer", n)
    \/ \E e \in LookupErrors : FetchLookupFail("fetch_timer", e)
    \/ FetchAcquire("fetch_timer") \/ FetchStore("fetch_timer")
    \/ FetchRelease("fetch_timer") \/ FetchShutdownTimer("fetch_timer")

\* the node started with any of the ~map values
SanitizeInit == InitWith({"cb1"}, MapParams)

SanitizeSpec == SanitizeInit /\ [][Next]_vars

FairStaticSpec ==
    /\ Init
    /\ [][StaticStep]_vars
    /\ WF_vars(MainStep)
    /\ WF_vars(PubTimerStep)
    /\ WF_vars(FetchTimerStep)

\* The whole node with the scheduling rospy and the semaphore give: every
\* thread that can take a step eventually takes one, and a timer thread that
\* waits in acquire() gets the semaphore, which the other timer thread leaves
\* free for a whole timer period after each release.
FairNodeSpec ==
    /\ Init
    /\ [][Next]_vars
    /\ WF_vars(MainStep)
    /\ WF_vars(PubTimerStep)
    /\ WF_vars(FetchTimerStep)
    /\ SF_vars(FetchAcquire("fetch_timer"))
    /\ SF_vars(PublishAcquire("pub_timer"))

\* The node started with the sentinel tag and two publishers on the odometry
\* topic: rospy runs _cb_odometry in one receive thread per publisher
\* connection, so two callbacks can be in progress at once.
ConcurrentInit == InitWith({"cb1", "cb2"}, {<<"m", "a", "p">>}) /\ tag_id = NOTSET

OdomNodeStep == InitCheckTag \/ InitSubscribe \/ InitPoseLast \/ OdomStep

ConcurrentOdomSpec == ConcurrentInit /\ [][OdomNodeStep]_vars

\* ================================================================== claims
\* the cache holds an edge for some key
Populated == \E i \in 1..Len(static_tfs) : static_tfs[i].value # None

\* a message handed to the publisher by the odometry callback
OdomPublished == lastPublished # None /\ lastPublished.by \in OdomThreads

\* C1: once the cache holds an edge for a key, no step clears or replaces the
\* value stored for that key.
C1_StoredEdgeNeverReplaced ==
    [][\A i \in 1..Len(static_tfs) :
          static_tfs[i].value # None =>
              /\ i <= Len(static_tfs')
              /\ static_tfs'[i] = static_tfs[i]]_vars

\* C2: every step of the odometry callback that publishes an edge leaves the
\* pose of that sample in lastEmittedPose (self._pose_last).
C2_EmitUpdatesLastEmittedPose ==
    [][\A t \in OdomThreads :
          (opc[t] = "O223" /\ opc'[t] = "idle") => pose_last' = pose_now[t]]_vars

\* the translation of pose `now` relative to the stored reference pose `last`
RelativeTo(last, now) ==
    RelativeTranslation(RelativeRotation(last.rot, now.rot), now.pos, last.pos)

C4_FailedFetchStoresNothing ==
    [][\A c \in FetchCtx :
          (pc[c] = "F110" /\ pc'[c] \notin {"F110", "F129"})
          => /\ static_tfs' = static_tfs
             /\ fetch_timer' = fetch_timer
             /\ pc'[c] = (IF c = "main" THEN "P148" ELSE "idle")]_vars

\* C4 witness: the constructor's fetch failed and the constructor goes on with
\* an unchanged cache.
C4_Witness ==
    /\ pc["main"] = "P148"
    /\ static_tfs = << [key |-> <<_footprint_frame, _tag_frame>>, value |-> None] >>

\* C5: a snapshot holds no null entry, and no null edge is handed to the
\* publisher.
C5_SnapshotHasNoNull ==
    /\ \A c \in PublishCtx : \A i \in 1..Len(tfs[c]) : tfs[c][i] # None
    /\ lastPublished # None => lastPublished.msg # None

\* C6: once the cache is populated no context starts another lookup.
C6_NoFetchAfterSuccess ==
    [][Populated => \A c \in FetchCtx : (pc'[c] = "F110" => pc[c] = "F110")]_vars

\* a publish loop has just handed a cached edge (not None) to the publisher
EdgeJustPublished ==
    \E c \in PublishCtx :
        /\ pc[c] = "P155" /\ tfs[c] = <<>>
        /\ lastPublished # None
        /\ lastPublished.by = c
        /\ lastPublished.msg # None

\* C7: once the cache is populated, the cached edge is handed to the publisher
\* again and again, forever.
C7_CachedEdgePublishedForever == [](Populated => []<>EdgeJustPublished)

\* C8: once the first odometry callback has returned, its pose is stored in
\* lastEmittedPose and nothing has been published by the callback.
C8_FirstObserveStoresPose ==
    (nSamples = 1 /\ opc["cb1"] = "idle")
    => /\ pose_last \notin {Unset, None}
       /\ pose_last.stamp = 1
       /\ ~OdomPublished

\* C9: every odometry edge handed to the publisher has a translation of norm
\* at least MIN_DIST_ODOM.
C9_MinimumEdgeLength ==
    OdomPublished =>
        NormSq(lastPublished.msg.transform.translation) >= MIN_DIST_ODOM * MIN_DIST_ODOM

\* C9 witness: an odometry edge of exactly the threshold length was published.
C9_Witness ==
    /\ OdomPublished
    /\ NormSq(lastPublished.msg.transform.translation) = MIN_DIST_ODOM * MIN_DIST_ODOM

\* C10: with tag_id = '__NOTSET__' no timer exists, no fetch or static publish
\* runs, the cache stays empty and only odometry edges reach the publisher.
C10_SentinelDisablesStatic ==
    tag_id = NOTSET =>
        /\ pc["main"] \in {"L80", "L92", "L99", "spin"}
        /\ pc["fetch_timer"] = "none" /\ pc["pub_timer"] = "none"
        /\ fetch_timer = "unset" /\ pub_timer = "unset"
        /\ ~Populated /\ Len(static_tfs) = 1
        /\ lastPublished # None => lastPublished.by \in OdomThreads

\* C10 witness: with the sentinel an odometry edge was published.
C10_Witness == tag_id = NOTSET /\ OdomPublished

\* C11: while the cache is populated no fetch calls the lookup collaborator
\* and no fetch writes to the cache.
C11_PopulatedFetchIsNoOp ==
    [][Populated =>
          \A c \in FetchCtx :
              /\ ~(pc[c] = "F110" /\ pc'[c] # "F110")
              /\ ~(pc[c] = "F131" /\ pc'[c] = "F133")]_vars

\* <<x, y, z, w>> conjugated
quaternion_conjugate(q) == <<0 - q[1], 0 - q[2], 0 - q[3], q[4]>>

\* C13: the translation of an emitted edge is the world-frame displacement
\* rotated by the conjugate of lastEmittedPose's rotation alone, whatever the
\* rotation of the new pose.
C13_TranslationInLastBodyFrame ==
    \A t \in OdomThreads :
        opc[t] = "O223" =>
            olocal[t].transform.translation =
                MatVec(quaternion_matrix(quaternion_conjugate(pose_last.rot)),
                       VecSub(pose_now[t].pos, pose_last.pos))

\* C14: the cache has exactly one key, and a snapshot has at most one element.
C14_ExactlyOneKey ==
    /\ Len(static_tfs) = 1
    /\ \A c \in PublishCtx : Len(tfs[c]) <= 1

\* C12: every publish call carries the sanitized ~map as destination, and the
\* sanitized value is exactly the alphanumeric characters of the parameter in
\* their order: it holds no other character, sanitizing it again changes
\* nothing, and "auto-bot_01!" becomes "autobot01".
IsAlphaNum(ch) == ch \in AlphaNum

C12_DestinationIsSanitizedMap ==
    /\ lastPublished # None =>
           lastPublished.destination = SelectSeq(map_param, IsAlphaNum)
    /\ map_name = SelectSeq(map_param, IsAlphaNum)
    /\ \A i \in 1..Len(map_name) : map_name[i] \in AlphaNum
    /\ _sanitize_hostname(map_name) = map_name
    /\ map_param = <<"a", "u", "t", "o", "-", "b", "o", "t", "_", "0", "1", "!">>
           => map_name = <<"a", "u", "t", "o", "b", "o", "t", "0", "1">>

\* C12 witness: started with ~map = "auto-bot_01!", the static loop and then the
\* odometry callback have published, the last call with destination "autobot01".
C12_Witness ==
    /\ map_param = <<"a", "u", "t", "o", "-", "b", "o", "t", "_", "0", "1", "!">>
    /\ tag_id # NOTSET
    /\ OdomPublished
    /\ lastPublished.destination = <<"a", "u", "t", "o", "b", "o", "t", "0", "1">>

\* the context is between acquire() and release() of self._static_tfs_sem
InGuarded(c) == pc[c] \in {"F131", "F133", "P150", "P153"}

\* the context is inside lookup_transform or inside publish
InExternalCall(c) == pc[c] \in {"F110", "P155"}

\* C15: whenever the semaphore is taken, some context is at the store or at
\* the copy-out, and a context inside the external lookup or publish call is
\* not the one that holds it.
C15_NoExternalCallUnderLock ==
    /\ sem = 0 => \E c \in Contexts : InGuarded(c)
    /\ \A c \in Contexts :
           InExternalCall(c) =>
               (sem = 1 \/ \E d \in Contexts \ {c} : InGuarded(d))
    /\ \A t \in OdomThreads :
           opc[t] = "O223" => (sem = 1 \/ \E d \in Contexts : InGuarded(d))

\* C15 witness: the fetch timer is inside lookup_transform while the publish
\* timer holds the semaphore for its copy.
C15_Witness ==
    /\ pc["fetch_timer"] = "F110"
    /\ pc["pub_timer"] = "P150"
    /\ sem = 0

\* C16: at most one context is between acquire and release, the semaphore is
\* released after every acquire, and a context that reaches acquire gets past it.
C16_MutualExclusionNoStarvation ==
    /\ [](Cardinality({c \in Contexts : InGuarded(c)}) = 1 - sem)
    /\ [](sem = 0 => <>(sem = 1))
    /\ \A c \in FetchCtx : [](pc[c] = "F129" => <>(pc[c] = "F131"))
    /\ \A c \in PublishCtx : [](pc[c] = "P148" => <>(pc[c] = "P150"))

\* C16 witness: the fetch timer waits in acquire() while the publish timer is
\* copying, and an odometry callback is running.
C16_Witness ==
    /\ pc["fetch_timer"] = "F129"
    /\ pc["pub_timer"] = "P150"
    /\ sem = 0
    /\ opc["cb1"] # "idle"

\* a step in which lookup_transform raises
LookupFails ==
    \E c \in FetchCtx : pc[c] = "F110" /\ pc'[c] \notin {"F110", "F129"}

\* C18: with the static subsystem enabled, as long as the cache is empty the
\* node is alive and the fetch timer has not been cancelled, and if from some
\* point on no lookup fails the cache becomes populated.
C18_CalibrationEventuallyAcquired ==
    /\ []((tag_id # NOTSET /\ ~Populated) => (Alive /\ fetch_timer # "shutdown"))
    /\ <>[][~LookupFails]_vars => <>(tag_id = NOTSET \/ Populated)

\* C17: no two odometry callbacks are both in the first-invocation branch, and
\* no two have both passed the threshold against the same lastEmittedPose with
\* their edges still to be emitted.
C17_CheckAndUpdateAtomic ==
    \A t1, t2 \in OdomThreads :
        t1 # t2 =>
            /\ ~(opc[t1] = "O172" /\ opc[t2] = "O172")
            /\ ~(opc[t1] = "O223" /\ opc[t2] = "O223")

\* C19: the cache changes only in the store of a fetch, and lastEmittedPose
\* changes only in a step of the odometry callback, after the constructor's
\* initial assignment of None.
C19_StateOwnership ==
    [][/\ static_tfs' # static_tfs =>
              \E c \in FetchCtx : pc[c] = "F131" /\ pc'[c] = "F133"
       /\ pose_last' # pose_last =>
              \/ \E t \in OdomThreads : opc[t] # "idle" /\ opc'[t] = "idle" /\ pc' = pc
              \/ pc["main"] = "L99" /\ pose_last = Unset /\ pose_last' = None]_vars

\* C19 witness: a fetch has stored an edge and the odometry callback has stored
\* a pose, while the publish timer is running a loop.
C19_Witness ==
    /\ Populated
    /\ pose_last \notin {Unset, None}
    /\ pc["pub_timer"] = "P155"

====
